---------------------------- MODULE Spec2Model ----------------------------
(***************************************************************************)
(* Model of the cardiorenal risk engine (services/riskCalculations):       *)
(* calculateCVRisk (Pooled Cohort Equations), calculateRenalRisk (KFRE),   *)
(* getCombinedResults and calculateOptimalRisk, and of the App component   *)
(* that holds the form record, the wizard position, the memoised results   *)
(* and the narrative asked of a text-generation provider                   *)
(* (generateAiInsight).                                                    *)
(*                                                                         *)
(* Numbers.  The engine works on IEEE doubles; the model works on          *)
(* fixed-point integers that fit TLC's 32-bit arithmetic:                  *)
(*   - a real x is held as the integer x * Scale (Scale = 10^6), products  *)
(*     and quotients are rounded towards zero;                             *)
(*   - Math.log, Math.exp and Math.pow are computed (Ln, Exp, Pow) by      *)
(*     range reduction and power series, to about 5 significant digits;    *)
(*   - a percentage p is held as the integer p * PctScale (PctScale =      *)
(*     80000), so that the engine's products by 0.75, by 100 and by 2.5    *)
(*     are exact in the model;                                             *)
(*   - eGFR and bmi are held in tenths, as the form's defaults 56.4 and    *)
(*     31.8 need;                                                          *)
(*   - NaN, Infinity and -Infinity are three integers outside the range    *)
(*     of the reals above, and the operators X.. follow the rules of IEEE  *)
(*     arithmetic for them.                                                *)
(***************************************************************************)
EXTENDS Integers, Sequences, FiniteSets, TLC

VARIABLES
    data,         \* the MedicalData record the caller holds and passes
    op,           \* the engine function that was called last, or "idle"
    ret,          \* the value that call returned
    optimalData,  \* the record calculateOptimalRisk built and passed on
    view,         \* App: "home", "calc" or "results"
    step,         \* App: the page of the form wizard
    formData,     \* App: the MedicalData record of the form
    results,      \* App: the memoised getCombinedResults(formData)
    optimal,      \* App: the memoised calculateOptimalRisk(formData)
    edits,        \* the number of form edits made so far
    aiInsight,    \* App: the narrative shown, or null
    isAiLoading,  \* App: a narrative has been asked for and not yet settled
    apiKey,       \* App: the stored key of the selected provider
    inFlight      \* the requests sent to the provider and not yet settled

engineVars == <<data, op, ret, optimalData>>
aiVars == <<aiInsight, isAiLoading, apiKey, inFlight>>
appVars ==
    <<view, step, formData, results, optimal, edits,
      aiInsight, isAiLoading, apiKey, inFlight>>
vars ==
    <<data, op, ret, optimalData, view, step, formData, results, optimal, edits,
      aiInsight, isAiLoading, apiKey, inFlight>>

-----------------------------------------------------------------------------
(* Bounds of the input space and program constants                         *)

\* ages outside the PCE range [30, 79], one on each side
AgeBelow == 25
AgeAbove == 85
\* renal inputs worse than the form's defaults: eGFR (mL/min) and ACR (mg/g)
LowEGFR == 35
HighACR == 1000
MaxEdits == 2
MaxAiEdits == 1
MaxInFlight == 2

\* Limites do estudo PCE (30-79 anos)
MinEvalAge == 30
MaxEvalAge == 79

\* the form's initial record (App, useState<MedicalData>)
DefaultAge == 50
DefaultHeight == 180
DefaultWeight == 103
DefaultBmi == 318
DefaultSBP == 145
DefaultDBP == 92
DefaultTC == 250
DefaultHDL == 38
DefaultEGFR == 564
DefaultACR == 175

\* the targets calculateOptimalRisk forces
OptimalSBP == 115
OptimalDBP == 75
OptimalTC == 160
OptimalHDL == 55

-----------------------------------------------------------------------------
(* Fixed-point arithmetic                                                  *)

Radix == 10 ^ 3
Scale == Radix * Radix
PctScale == 80 * 1000
LN2 == 693 * 1000 + 147

Abs(x) == IF x < 0 THEN -x ELSE x
Min(a, b) == IF a < b THEN a ELSE b
Max(a, b) == IF a > b THEN a ELSE b

\* a * b / Scale for a, b >= 0, without an intermediate product over 2^31
MulAbs(a, b) ==
    LET ah == a \div Radix
        al == a % Radix
        bh == b \div Radix
        bl == b % Radix
    IN  ah * bh + ((ah * bl + al * bh + ((al * bl) \div Radix)) \div Radix)

\* the product of two reals
Mul(a, b) ==
    IF (a >= 0) = (b >= 0) THEN MulAbs(Abs(a), Abs(b))
    ELSE -MulAbs(Abs(a), Abs(b))

\* n / d as a real, for 0 <= n < d
DivFix(n, d) ==
    LET a == n * Radix
    IN  (a \div d) * Radix + (((a % d) * Radix) \div d)

\* sum of t*y2^j/k for k = 3, 5, .., 13:  the tail of the series of atanh
RECURSIVE AtanhTail(_, _, _)
AtanhTail(t, y2, k) ==
    IF k > 13 THEN 0
    ELSE LET u == Mul(t, y2) IN (u \div k) + AtanhTail(u, y2, k + 2)

\* ln(n/d) for d <= n < 2d:  2 * atanh((n - d) / (n + d))
LnSeries(n, d) ==
    LET y == DivFix(n - d, n + d)
    IN  2 * (y + AtanhTail(y, Mul(y, y), 3))

\* ln(n/d) for n >= d
RECURSIVE LnReduce(_, _)
LnReduce(n, d) ==
    IF n >= 2 * d THEN LN2 + LnReduce(n, 2 * d) ELSE LnSeries(n, d)

\* Math.log(n/d) for integers n, d > 0
Ln(n, d) == IF n >= d THEN LnReduce(n, d) ELSE -LnReduce(d, n)

\* 1 + r/1 * (1 + r/2 * (.. (1 + r/10))):  the series of e^r
RECURSIVE ExpSeries(_, _)
ExpSeries(r, k) ==
    IF k > 10 THEN Scale
    ELSE Scale + (Mul(r, ExpSeries(r, k + 1)) \div k)

\* the largest multiplier the fixed-point range holds, e^x for x >= ln(1000)
ExpMax == 1000 * Scale
LnExpMax == 6907 * 1000 + 755

\* Math.exp(x)
Exp(x) ==
    IF x >= LnExpMax THEN ExpMax
    ELSE LET k == x \div LN2
             e == ExpSeries(x % LN2, 1)
         IN  IF k >= 0 THEN e * (2 ^ k)
             ELSE IF k < -21 THEN 0
             ELSE e \div (2 ^ (-k))

\* Math.pow(b, e) for a real base 0 < b <= 1 and a real exponent e
Pow(b, e) == Exp(Mul(e, Ln(b, Scale)))

-----------------------------------------------------------------------------
(* NaN and the infinities                                                  *)

NaN == 2147483646
PosInf == 2147483647
NegInf == -2147483647

\* In the operators below, and in the engine, a value that is used more than
\* once is computed once and bound to a name:  CHOOSE r \in {e : x \in {v}} : TRUE
\* is e with x standing for the value of v.

Special(x) == x = NaN \/ x = PosInf \/ x = NegInf

\* the sign of a number that is not NaN: -1, 0 or 1
Sign(x) == IF x > 0 THEN 1 ELSE IF x < 0 THEN -1 ELSE 0

\* -x
XNeg(x) ==
    CHOOSE r \in
        { IF a = NaN THEN NaN
          ELSE IF a = PosInf THEN NegInf
          ELSE IF a = NegInf THEN PosInf
          ELSE -a : a \in {x} } : TRUE

\* x + y
XAdd(x, y) ==
    CHOOSE r \in
        { IF ~Special(a) /\ ~Special(b) THEN a + b
          ELSE IF a = NaN \/ b = NaN THEN NaN
          ELSE IF Special(a) /\ Special(b) THEN (IF a = b THEN a ELSE NaN)
          ELSE IF Special(a) THEN a
          ELSE b : a \in {x}, b \in {y} } : TRUE

\* x - y
XSub(x, y) == XAdd(x, XNeg(y))

\* x * y
XMul(x, y) ==
    CHOOSE r \in
        { IF ~Special(a) /\ ~Special(b) THEN Mul(a, b)
          ELSE IF a = NaN \/ b = NaN THEN NaN
          ELSE IF a = 0 \/ b = 0 THEN NaN
          ELSE IF Sign(a) = Sign(b) THEN PosInf
          ELSE NegInf : a \in {x}, b \in {y} } : TRUE

\* the terms of a sum, added from left to right
RECURSIVE XSumFrom(_, _, _)
XSumFrom(terms, i, acc) ==
    IF i > Len(terms) THEN acc
    ELSE XSumFrom(terms, i + 1, XAdd(acc, terms[i]))

XSum(sum) == CHOOSE r \in { XSumFrom(terms, 2, terms[1]) : terms \in {sum} } : TRUE

\* the real that a field holding the integer n (or n tenths, ...) stands for:
\* n * unit
XReal(n, unit) ==
    CHOOSE r \in { IF Special(a) THEN a ELSE a * unit : a \in {n} } : TRUE

\* Math.log(n) for a field holding the integer n
XLn(n) ==
    CHOOSE r \in
        { IF a = NaN \/ a = NegInf THEN NaN
          ELSE IF a = PosInf THEN PosInf
          ELSE IF a < 0 THEN NaN
          ELSE IF a = 0 THEN NegInf
          ELSE Ln(a, 1) : a \in {n} } : TRUE

\* Math.exp(x)
XExp(x) ==
    CHOOSE r \in
        { IF a = NaN THEN NaN
          ELSE IF a = PosInf THEN PosInf
          ELSE IF a = NegInf THEN 0
          ELSE Exp(a) : a \in {x} } : TRUE

\* Math.pow(b, e) for a real base 0 < b < 1
XPow(b, e) ==
    CHOOSE r \in
        { IF a = NaN THEN NaN
          ELSE IF a = PosInf THEN 0
          ELSE IF a = NegInf THEN PosInf
          ELSE Pow(base, a) : base \in {b}, a \in {e} } : TRUE

\* Math.min(x, y), Math.max(x, y)
XMin(x, y) ==
    CHOOSE r \in
        { IF a = NaN \/ b = NaN THEN NaN ELSE IF a < b THEN a ELSE b :
            a \in {x}, b \in {y} } : TRUE

XMax(x, y) ==
    CHOOSE r \in
        { IF a = NaN \/ b = NaN THEN NaN ELSE IF a > b THEN a ELSE b :
            a \in {x}, b \in {y} } : TRUE

\* a > b
XGt(a, b) == a # NaN /\ b # NaN /\ a > b

\* x * k for a whole factor k > 0
XTimes(x, k) ==
    CHOOSE r \in { IF Special(a) THEN a ELSE a * k : a \in {x} } : TRUE

-----------------------------------------------------------------------------
(* The engine                                                              *)

NoValue == [none |-> TRUE]

\* a variant that passes the caller's age on without the clamp
evalAge_noClamp(age) == age

\* Math.min(Math.max(age, 30), 79)
evalAge(age) == XMin(XMax(age, MinEvalAge), MaxEvalAge)

\* a coefficient written with three decimals, given in thousandths
Coef(milli) == milli * Radix

\* a variant with the treated and untreated coefficients exchanged
sbpCoef_exchanged(gender, onHypertensionMeds) ==
    IF gender = "MALE"
    THEN (IF onHypertensionMeds THEN Coef(1764) ELSE Coef(1797))
    ELSE (IF onHypertensionMeds THEN Coef(1957) ELSE Coef(2019))

\* the coefficient of ln(systolic BP), by sex and treatment
sbpCoef(gender, onHypertensionMeds) ==
    IF gender = "MALE"
    THEN (IF onHypertensionMeds THEN Coef(1797) ELSE Coef(1764))
    ELSE (IF onHypertensionMeds THEN Coef(2019) ELSE Coef(1957))

\* indivSum of calculateCVRisk
indivSum(d) ==
    CHOOSE r \in
        { IF d.gender = "MALE"
          THEN XSum(<< XMul(Coef(12344), lnAge),
                       XMul(Coef(11853), lnTotalChol),
                       XMul(XMul(Coef(-2664), lnAge), lnTotalChol),
                       XMul(Coef(-7990), lnHDL),
                       XMul(XMul(Coef(1769), lnAge), lnHDL),
                       XMul(sbpCoef(d.gender, d.onHypertensionMeds), lnSBP),
                       XMul(Coef(7837), smoker),
                       XMul(XMul(Coef(-1795), lnAge), smoker),
                       XMul(Coef(658), diabetes) >>)
          ELSE XSum(<< XMul(Coef(-29799), lnAge),
                       XMul(XMul(Coef(4884), lnAge), lnAge),
                       XMul(Coef(13540), lnTotalChol),
                       XMul(XMul(Coef(-3114), lnAge), lnTotalChol),
                       XMul(Coef(-13578), lnHDL),
                       XMul(XMul(Coef(3149), lnAge), lnHDL),
                       XMul(sbpCoef(d.gender, d.onHypertensionMeds), lnSBP),
                       XMul(Coef(7574), smoker),
                       XMul(XMul(Coef(-1665), lnAge), smoker),
                       XMul(Coef(661), diabetes) >>) :
            lnAge \in {XLn(evalAge(d.age))},
            lnTotalChol \in {XLn(d.totalCholesterol)},
            lnHDL \in {XLn(d.hdlCholesterol)},
            lnSBP \in {XLn(d.systolicBP)},
            smoker \in {IF d.isSmoker THEN Scale ELSE 0},
            diabetes \in {IF d.hasDiabetes THEN Scale ELSE 0} } : TRUE

\* meanSum: 61.1816 (male), -29.182 (female)
meanSum(gender) ==
    IF gender = "MALE" THEN 61181 * Radix + 600 ELSE -(29182 * Radix)

\* s10: 0.9144 (male), 0.9665 (female)
baselineS10(gender) == IF gender = "MALE" THEN 914400 ELSE 966500

\* riskFactor = Math.exp(indivSum - meanSum)
riskFactor(d) == XExp(XSub(indivSum(d), meanSum(d.gender)))

\* a variant that ignores the statin flag
statinEffect_ignored(risk, onStatins) == XTimes(risk, 4)

\* if (onStatins) risk = risk * 0.75, the result in quarters of 1/Scale
statinEffect(risk, onStatins) == XTimes(risk, IF onStatins THEN 3 ELSE 4)

\* a variant that uses the ten-year baseline survival at every horizon
riskPct_noTimeScaling(t, s10, rf, onStatins) ==
    XTimes(statinEffect(XSub(Scale, XPow(s10, rf)), onStatins), 2)

\* risk * 100 of calculateRiskAtTime(t), as a percentage before the clamp
riskPct(t, s10, rf, onStatins) ==
    LET st == Pow(s10, (t * Scale) \div 10)
        risk == XSub(Scale, XPow(st, rf))
    IN  XTimes(statinEffect(risk, onStatins), 2)

\* a variant without the 0.1 floor
clampPct_noFloor(pct) == XMin(pct, 100 * PctScale)

\* Math.min(Math.max(risk * 100, 0.1), 100)
clampPct(pct) == XMin(XMax(pct, PctScale \div 10), 100 * PctScale)

\* calculateRiskAtTime(t) inside calculateCVRisk, for riskFactor rf
calculateRiskAtTime(t, s10, rf, onStatins) ==
    clampPct(riskPct(t, s10, rf, onStatins))

calculateCVRisk(d) ==
    CHOOSE r \in
        { [ fiveYear    |-> calculateRiskAtTime(5, s10, rf, d.onStatins),
            tenYear     |-> calculateRiskAtTime(10, s10, rf, d.onStatins),
            fifteenYear |-> calculateRiskAtTime(15, s10, rf, d.onStatins),
            total       |-> calculateRiskAtTime(10, s10, rf, d.onStatins) ] :
            s10 \in {baselineS10(d.gender)}, rf \in {riskFactor(d)} } : TRUE

\* a variant that takes the clamped age, as calculateCVRisk does
renalLp_clampedAge(d) ==
    LET isMale == IF d.gender = "MALE" THEN Scale ELSE 0
        lnACR == XLn(d.acr)
    IN  XSum(<< XMul(-220100, XSub(XReal(evalAge(d.age), Scale \div 10), 7036 * Radix)),
                XMul(246700, isMale - 564200),
                XNeg(XMul(556700, XSub(XReal(d.eGFR, Scale \div 50), 7222 * Radix))),
                XMul(451000, XSub(lnACR, 5137 * Radix)) >>)

\* lp of calculateRenalRisk (eGFR is held in tenths: eGFR / 5 = tenths / 50)
renalLp(d) ==
    LET isMale == IF d.gender = "MALE" THEN Scale ELSE 0
        lnACR == XLn(d.acr)
    IN  XSum(<< XMul(-220100, XSub(XReal(d.age, Scale \div 10), 7036 * Radix)),
                XMul(246700, isMale - 564200),
                XNeg(XMul(556700, XSub(XReal(d.eGFR, Scale \div 50), 7222 * Radix))),
                XMul(451000, XSub(lnACR, 5137 * Radix)) >>)

\* a variant that raises the baseline survival to lp instead of exp(lp)
renalRiskAt_noExp(s, lp) ==
    XTimes(XSub(Scale, XPow(s, lp)), PctScale \div 10000)

\* (1 - Math.pow(s, Math.exp(lp))) * 100, as a percentage
renalRiskAt(s, lp) ==
    XTimes(XSub(Scale, XPow(s, XExp(lp))), PctScale \div 10000)

\* a variant that derives the two- and five-year baseline survival from the
\* ten-year one by time-scaling, as calculateRiskAtTime does
calculateRenalRisk_timeScaled(d) ==
    CHOOSE r \in
        { [ twoYear  |-> renalRiskAt(Pow(820000, (2 * Scale) \div 10), lp),
            fiveYear |-> renalRiskAt(Pow(820000, (5 * Scale) \div 10), lp),
            tenYear  |-> renalRiskAt(820000, lp) ] :
            lp \in {renalLp(d)} } : TRUE

\* a variant with the two- and five-year baseline survivals exchanged
calculateRenalRisk_exchanged(d) ==
    CHOOSE r \in
        { [ twoYear  |-> renalRiskAt(936500, lp),
            fiveYear |-> renalRiskAt(983200, lp),
            tenYear  |-> renalRiskAt(820000, lp) ] :
            lp \in {renalLp(d)} } : TRUE

calculateRenalRisk(d) ==
    CHOOSE r \in
        { [ twoYear  |-> renalRiskAt(983200, lp),
            fiveYear |-> renalRiskAt(936500, lp),
            tenYear  |-> renalRiskAt(820000, lp) ] :
            lp \in {renalLp(d)} } : TRUE

\* a variant whose comparisons are not strict
combinedLevel_nonStrict(cvTenYear, renalFiveYear) ==
    LET Ge(a, b) == XGt(a, b) \/ a = b
    IN  IF Ge(cvTenYear, 20 * PctScale) \/ Ge(renalFiveYear, 15 * PctScale) THEN "very_high"
        ELSE IF Ge(cvTenYear, 10 * PctScale) \/ Ge(renalFiveYear, 10 * PctScale) THEN "high"
        ELSE IF Ge(cvTenYear, 5 * PctScale) \/ Ge(renalFiveYear, 5 * PctScale) THEN "moderate"
        ELSE "low"

\* the if / else-if chain of getCombinedResults, level starting as "low"
combinedLevel(cvTenYear, renalFiveYear) ==
    IF XGt(cvTenYear, 20 * PctScale) \/ XGt(renalFiveYear, 15 * PctScale) THEN "very_high"
    ELSE IF XGt(cvTenYear, 10 * PctScale) \/ XGt(renalFiveYear, 10 * PctScale) THEN "high"
    ELSE IF XGt(cvTenYear, 5 * PctScale) \/ XGt(renalFiveYear, 5 * PctScale) THEN "moderate"
    ELSE "low"

\* a variant without the cap at 100
cv30yTotal_noCap(cvTenYear) ==
    IF Special(cvTenYear) THEN cvTenYear ELSE (cvTenYear * 5) \div 2

\* Math.min(cvRes.tenYear * 2.5, 100)
cv30yTotal(cvTenYear) ==
    XMin(IF Special(cvTenYear) THEN cvTenYear ELSE (cvTenYear * 5) \div 2,
         100 * PctScale)

getCombinedResults(d) ==
    CHOOSE r \in
        { [ cvTimeline    |-> [ fiveYear    |-> cvRes.fiveYear,
                                tenYear     |-> cvRes.tenYear,
                                fifteenYear |-> cvRes.fifteenYear ],
            cv30y         |-> [ total |-> cv30yTotal(cvRes.tenYear) ],
            renalTimeline |-> [ twoYear  |-> renalRes.twoYear,
                                fiveYear |-> renalRes.fiveYear,
                                tenYear  |-> renalRes.tenYear ],
            combinedLevel |-> combinedLevel(cvRes.tenYear, renalRes.fiveYear) ] :
            cvRes \in {calculateCVRisk(d)},
            renalRes \in {calculateRenalRisk(d)} } : TRUE

\* a variant that also resets the diabetes flag
buildOptimalData_diabetesReset(d) ==
    [d EXCEPT !.systolicBP = OptimalSBP,
              !.diastolicBP = OptimalDBP,
              !.totalCholesterol = OptimalTC,
              !.hdlCholesterol = OptimalHDL,
              !.isSmoker = FALSE,
              !.onHypertensionMeds = FALSE,
              !.onStatins = FALSE,
              !.hasDiabetes = FALSE]

\* a variant that leaves the smoking flag set
buildOptimalData_smoker(d) ==
    [d EXCEPT !.systolicBP = OptimalSBP,
              !.diastolicBP = OptimalDBP,
              !.totalCholesterol = OptimalTC,
              !.hdlCholesterol = OptimalHDL,
              !.isSmoker = TRUE,
              !.onHypertensionMeds = FALSE,
              !.onStatins = FALSE,
              !.hasDiabetes = d.hasDiabetes]

\* a variant that takes the treatment flags of the input
buildOptimalData_keepsTreatment(d) ==
    [d EXCEPT !.systolicBP = OptimalSBP,
              !.diastolicBP = OptimalDBP,
              !.totalCholesterol = OptimalTC,
              !.hdlCholesterol = OptimalHDL,
              !.isSmoker = FALSE,
              !.hasDiabetes = d.hasDiabetes]

\* optimalData of calculateOptimalRisk:  { ...data, systolicBP: 115, ... }
buildOptimalData(d) ==
    [d EXCEPT !.systolicBP = OptimalSBP,
              !.diastolicBP = OptimalDBP,
              !.totalCholesterol = OptimalTC,
              !.hdlCholesterol = OptimalHDL,
              !.isSmoker = FALSE,
              !.onHypertensionMeds = FALSE,
              !.onStatins = FALSE,
              !.hasDiabetes = d.hasDiabetes]

calculateOptimalRisk(d) == calculateCVRisk(buildOptimalData(d))

-----------------------------------------------------------------------------
(* Callers                                                                 *)

Ages == {AgeBelow, DefaultAge, 74, 75, 78, MaxEvalAge, AgeAbove}
Genders == {"MALE", "FEMALE"}
SBPs == {OptimalSBP, DefaultSBP}
TCs == {OptimalTC, DefaultTC}
HDLs == {DefaultHDL, OptimalHDL}
EGFRs == {LowEGFR * 10, DefaultEGFR}
ACRs == {DefaultACR, HighACR}

\* the records of a grid of inputs around the form's defaults
GridRecords ==
    [ age : Ages, gender : Genders,
      height : {DefaultHeight}, weight : {DefaultWeight}, bmi : {DefaultBmi},
      systolicBP : SBPs, diastolicBP : {DefaultDBP},
      totalCholesterol : TCs, hdlCholesterol : HDLs,
      hasDiabetes : BOOLEAN, isSmoker : BOOLEAN,
      onHypertensionMeds : BOOLEAN, onStatins : BOOLEAN,
      eGFR : EGFRs, acr : ACRs, useFullKfre : {FALSE} ]

\* a record without statins, of the form's default height, weight and bmi
Patient(age, gender, sbp, tc, hdl, diabetes, smoker, meds, egfr, acr) ==
    [ age |-> age, gender |-> gender,
      height |-> DefaultHeight, weight |-> DefaultWeight, bmi |-> DefaultBmi,
      systolicBP |-> sbp, diastolicBP |-> DefaultDBP,
      totalCholesterol |-> tc, hdlCholesterol |-> hdl,
      hasDiabetes |-> diabetes, isSmoker |-> smoker,
      onHypertensionMeds |-> meds, onStatins |-> FALSE,
      eGFR |-> egfr, acr |-> acr, useFullKfre |-> FALSE ]

\* records engineered so that, in the model's arithmetic, the ten-year
\* cardiovascular risk is exactly 20, 10, 5 per cent (the first three) or the
\* five-year renal risk is exactly 15, 10, 5 per cent (the last three), the
\* other score staying under the tier's threshold
ThresholdRecords ==
    { Patient(71, "MALE", 91, 311, 41, FALSE, TRUE, TRUE, DefaultEGFR, DefaultACR),
      Patient(31, "MALE", 123, 309, 51, TRUE, TRUE, TRUE, DefaultEGFR, DefaultACR),
      Patient(48, "MALE", 93, 166, 55, TRUE, TRUE, FALSE, DefaultEGFR, DefaultACR),
      Patient(51, "FEMALE", DefaultSBP, DefaultTC, DefaultHDL, FALSE, FALSE, FALSE, 406, 2040),
      Patient(54, "FEMALE", DefaultSBP, DefaultTC, DefaultHDL, FALSE, FALSE, FALSE, 425, 1444),
      Patient(39, "MALE", OptimalSBP, OptimalTC, OptimalHDL, FALSE, FALSE, FALSE, 483, 341) }

\* records at the ends of the input ranges: failing kidneys with heavy
\* albuminuria, healthy kidneys with none, and every cardiovascular factor
\* bad, without and with statins
ExtremeRecords ==
    { Patient(AgeBelow, "MALE", DefaultSBP, DefaultTC, DefaultHDL, FALSE, FALSE, FALSE, 50, 5000),
      Patient(AgeAbove, "FEMALE", DefaultSBP, DefaultTC, DefaultHDL, FALSE, FALSE, FALSE, 1200, 1),
      Patient(MaxEvalAge, "MALE", 200, 400, 20, TRUE, TRUE, TRUE, DefaultEGFR, DefaultACR),
      [Patient(MaxEvalAge, "MALE", 200, 400, 20, TRUE, TRUE, TRUE, DefaultEGFR, DefaultACR)
          EXCEPT !.onStatins = TRUE] }

\* the records a caller may pass
Records == GridRecords \cup ThresholdRecords \cup ExtremeRecords

\* the record of the form when the App is constructed
DefaultFormData ==
    [ age |-> DefaultAge, gender |-> "MALE",
      height |-> DefaultHeight, weight |-> DefaultWeight, bmi |-> DefaultBmi,
      systolicBP |-> DefaultSBP, diastolicBP |-> DefaultDBP,
      totalCholesterol |-> DefaultTC, hdlCholesterol |-> DefaultHDL,
      hasDiabetes |-> FALSE, isSmoker |-> FALSE,
      onHypertensionMeds |-> TRUE, onStatins |-> FALSE,
      eGFR |-> DefaultEGFR, acr |-> DefaultACR, useFullKfre |-> FALSE ]

\* the App as constructed: the home view, the first page of the wizard, the
\* default record and the two values memoised at the first render
AppConstructed ==
    /\ view = "home"
    /\ step = 1
    /\ formData = DefaultFormData
    /\ results = getCombinedResults(DefaultFormData)
    /\ optimal = calculateOptimalRisk(DefaultFormData)
    /\ edits = 0
    /\ aiInsight = [isNull |-> TRUE, text |-> <<>>]
    /\ isAiLoading = FALSE
    /\ inFlight = 0

\* the caller's record once an engine function has returned: the engine
\* reads the fields into constants and builds the optimal record as a copy,
\* no statement assigns to a field of its argument
argumentAfterCall_ageClamped(d) == [d EXCEPT !.age = evalAge(d.age)]

argumentAfterCall(d) == d

Init ==
    /\ AppConstructed
    /\ apiKey = ""
    /\ data \in Records
    /\ op = "idle"
    /\ ret = NoValue
    /\ optimalData = NoValue

CallCalculateCVRisk ==
    /\ op = "idle"
    /\ op' = "calculateCVRisk"
    /\ ret' = calculateCVRisk(data)
    /\ data' = argumentAfterCall(data)
    /\ UNCHANGED optimalData
    /\ UNCHANGED appVars

CallCalculateRenalRisk ==
    /\ op = "idle"
    /\ op' = "calculateRenalRisk"
    /\ ret' = calculateRenalRisk(data)
    /\ data' = argumentAfterCall(data)
    /\ UNCHANGED optimalData
    /\ UNCHANGED appVars

CallGetCombinedResults ==
    /\ op = "idle"
    /\ op' = "getCombinedResults"
    /\ ret' = getCombinedResults(data)
    /\ data' = argumentAfterCall(data)
    /\ UNCHANGED optimalData
    /\ UNCHANGED appVars

CallCalculateOptimalRisk ==
    /\ op = "idle"
    /\ op' = "calculateOptimalRisk"
    /\ optimalData' = buildOptimalData(data)
    /\ ret' = calculateCVRisk(optimalData')
    /\ data' = argumentAfterCall(data)
    /\ UNCHANGED appVars

\* the caller takes the returned value; the engine keeps nothing of the call
Return ==
    /\ op # "idle"
    /\ op' = "idle"
    /\ ret' = NoValue
    /\ optimalData' = NoValue
    /\ UNCHANGED data
    /\ UNCHANGED appVars

Next ==
    \/ CallCalculateCVRisk
    \/ CallCalculateRenalRisk
    \/ CallGetCombinedResults
    \/ CallCalculateOptimalRisk
    \/ Return

Spec == Init /\ [][Next]_vars

-----------------------------------------------------------------------------
(* The App component                                                       *)

\* the values the user types that break the engine's preconditions: an
\* emptied field (parseInt and parseFloat give NaN), zero, a negative number
InvalidNumbers == {NaN, 0, -1}

\* the page of the wizard that shows the widget of a field
FieldStep(field) ==
    IF field \in {"age", "gender", "height", "weight"} THEN 1
    ELSE IF field \in {"eGFR", "acr"} THEN 3
    ELSE 2

Toggles == {"hasDiabetes", "isSmoker", "onHypertensionMeds", "onStatins"}

EditableFields ==
    {"age", "gender", "height", "weight", "systolicBP", "diastolicBP",
     "totalCholesterol", "hdlCholesterol", "eGFR", "acr"} \cup Toggles

\* the values the widget of a field hands to handleInputChange
FieldInputs(field, fd) ==
    IF field = "age" THEN {MinEvalAge, DefaultAge, MaxEvalAge}
    ELSE IF field = "gender" THEN Genders
    ELSE IF field = "height" THEN {DefaultHeight, NaN}
    ELSE IF field = "weight" THEN {DefaultWeight, NaN}
    ELSE IF field = "systolicBP" THEN SBPs \cup InvalidNumbers
    ELSE IF field = "diastolicBP" THEN {OptimalDBP, DefaultDBP}
    ELSE IF field = "totalCholesterol" THEN TCs \cup InvalidNumbers
    ELSE IF field = "hdlCholesterol" THEN HDLs \cup InvalidNumbers
    ELSE IF field = "eGFR" THEN EGFRs \cup {NaN}
    ELSE IF field = "acr" THEN ACRs \cup InvalidNumbers
    ELSE {~fd[field]}

\* useMemo(() => getCombinedResults(formData), [formData]) at a render:
\* variant with an empty dependency list, the held value is kept
resultsMemo_noDeps(held, fd, changed) == held

\* the value is computed again when formData changed since the last render
resultsMemo(held, fd, changed) ==
    IF changed THEN getCombinedResults(fd) ELSE held

\* useMemo(() => calculateOptimalRisk(formData), [formData]) at a render
optimalMemo(held, fd, changed) ==
    IF changed THEN calculateOptimalRisk(fd) ELSE held

\* the render that follows a state update
Render(changed) ==
    /\ results' = resultsMemo(results, formData', changed)
    /\ optimal' = optimalMemo(optimal, formData', changed)

AppInit ==
    /\ AppConstructed
    /\ apiKey = ""
    /\ data = DefaultFormData
    /\ op = "idle"
    /\ ret = NoValue
    /\ optimalData = NoValue

\* a widget of the open page of the wizard calls handleInputChange, the
\* model allowing limit edits in all
EditForm(limit) ==
    /\ view = "calc"
    /\ edits < limit
    /\ \E field \in EditableFields :
          /\ step = FieldStep(field)
          /\ \E value \in FieldInputs(field, formData) :
                /\ value # formData[field]
                /\ formData' = [formData EXCEPT ![field] = value]
    /\ edits' = edits + 1
    /\ Render(TRUE)
    /\ UNCHANGED <<view, step>>
    /\ UNCHANGED aiVars
    /\ UNCHANGED engineVars

HandleInputChange == EditForm(MaxEdits)

\* the logo of the header
ClickHome ==
    /\ view' = "home"
    /\ UNCHANGED <<step, formData, edits>>
    /\ Render(FALSE)
    /\ UNCHANGED aiVars
    /\ UNCHANGED engineVars

\* 'Novo Exame' of the header
ClickNovoExame ==
    /\ view' = "calc"
    /\ step' = 1
    /\ UNCHANGED <<formData, edits>>
    /\ Render(FALSE)
    /\ UNCHANGED aiVars
    /\ UNCHANGED engineVars

\* 'Iniciar' of the home view
ClickIniciar ==
    /\ view = "home"
    /\ view' = "calc"
    /\ UNCHANGED <<step, formData, edits>>
    /\ Render(FALSE)
    /\ UNCHANGED aiVars
    /\ UNCHANGED engineVars

\* disabled={step === 1} of 'Voltar': variant that never disables it
backDisabled_never(s) == FALSE

backDisabled(s) == s = 1

\* 'Voltar' of the wizard
ClickVoltar ==
    /\ view = "calc"
    /\ ~backDisabled(step)
    /\ step' = step - 1
    /\ UNCHANGED <<view, formData, edits>>
    /\ Render(FALSE)
    /\ UNCHANGED aiVars
    /\ UNCHANGED engineVars

\* 'Proximo', rendered when step < 3
ClickProximo ==
    /\ view = "calc"
    /\ step < 3
    /\ step' = step + 1
    /\ UNCHANGED <<view, formData, edits>>
    /\ Render(FALSE)
    /\ UNCHANGED aiVars
    /\ UNCHANGED engineVars

\* 'Gerar Analises', rendered in place of 'Proximo' otherwise
ClickGerarAnalises ==
    /\ view = "calc"
    /\ ~(step < 3)
    /\ view' = "results"
    /\ UNCHANGED <<step, formData, edits>>
    /\ Render(FALSE)
    /\ UNCHANGED aiVars
    /\ UNCHANGED engineVars

\* 'Editar Dados' of the results view
ClickEditarDados ==
    /\ view = "results"
    /\ view' = "calc"
    /\ UNCHANGED <<step, formData, edits>>
    /\ Render(FALSE)
    /\ UNCHANGED aiVars
    /\ UNCHANGED engineVars

AppNext ==
    \/ HandleInputChange
    \/ ClickHome
    \/ ClickNovoExame
    \/ ClickIniciar
    \/ ClickVoltar
    \/ ClickProximo
    \/ ClickGerarAnalises
    \/ ClickEditarDados

AppSpec == AppInit /\ [][AppNext]_vars

-----------------------------------------------------------------------------
(* The narrative of the results page: generateAiInsight, the stored keys    *)
(* and the button that asks for the narrative.  A text is a sequence of     *)
(* tokens: "*" is an asterisk, "bullet" the bullet character, any other     *)
(* token a run of other characters.                                         *)

NullInsight == [isNull |-> TRUE, text |-> <<>>]
TextInsight(t) == [isNull |-> FALSE, text |-> t]

FallbackText == <<"Nao foi possivel gerar a analise no momento.">>
ErrorText ==
    <<"Erro ao processar o parecer tecnico. Verifique a chave da API e a conexao.">>

\* the key values told apart by the code: none, the placeholder, a real key
ApiKeys == {"", "PLACEHOLDER_API_KEY", "sk"}
\* the key of the build's environment: the variable is not defined
EnvKey == ""

\* apiKeys[provider] || import.meta.env[...]
currentKey(stored) == IF stored # "" THEN stored ELSE EnvKey
\* !currentKey || currentKey === 'PLACEHOLDER_API_KEY'
keyMissing(key) == key = "" \/ key = "PLACEHOLDER_API_KEY"

\* the contents a provider can answer with: every text of asterisks and
\* other characters up to MaxContentLen tokens, the empty one standing
\* for an answer without content as well
MaxContentLen == 2
ContentTokens == {"*", "a"}
Contents ==
    UNION { [1..n -> ContentTokens] : n \in 0..MaxContentLen }

\* text.replace(/\*\*/g, ''): the pairs of asterisks go, from the left
RECURSIVE removeBold(_)
removeBold(t) ==
    IF t = <<>> THEN <<>>
    ELSE IF Len(t) >= 2 /\ t[1] = "*" /\ t[2] = "*"
         THEN removeBold(SubSeq(t, 3, Len(t)))
         ELSE <<t[1]>> \o removeBold(Tail(t))

\* .replace(/\*/g, '•')
toBullets(t) == [i \in 1..Len(t) |-> IF t[i] = "*" THEN "bullet" ELSE t[i]]

\* the text generateAiInsight stores for the content of an answer
insightText(content) ==
    toBullets(removeBold(IF content = <<>> THEN FallbackText ELSE content))

\* the truth value of aiInsight in the JSX: null and '' are false
truthy(insight) == ~insight.isNull /\ insight.text # <<>>

aiButtonShown_always(insight) == TRUE
\* {!aiInsight && (<button ...>)}
aiButtonShown(insight) == ~truthy(insight)

aiButtonDisabled_never(loading) == FALSE
\* disabled={isAiLoading}
aiButtonDisabled(loading) == loading

\* the key field of the settings dialog, open over any view
SaveApiKey ==
    /\ \E key \in ApiKeys :
          /\ key # apiKey
          /\ apiKey' = key
    /\ UNCHANGED <<aiInsight, isAiLoading, inFlight>>
    /\ UNCHANGED <<view, step, formData, edits>>
    /\ Render(FALSE)
    /\ UNCHANGED engineVars

\* a provider button of the settings dialog: the key in use becomes the one
\* stored for the provider chosen, whatever it is
ChangeProvider ==
    /\ \E key \in ApiKeys : apiKey' = key
    /\ UNCHANGED <<aiInsight, isAiLoading, inFlight>>
    /\ UNCHANGED <<view, step, formData, edits>>
    /\ Render(FALSE)
    /\ UNCHANGED engineVars

\* the button of the narrative panel calls generateAiInsight, which runs to
\* its return without a key, to its await with one
ClickGerarParecer ==
    /\ view = "results"
    /\ aiButtonShown(aiInsight)
    /\ ~aiButtonDisabled(isAiLoading)
    /\ inFlight < MaxInFlight
    /\ aiInsight' = NullInsight
    /\ IF keyMissing(currentKey(apiKey))
          THEN /\ isAiLoading' = FALSE
               /\ inFlight' = inFlight
          ELSE /\ isAiLoading' = TRUE
               /\ inFlight' = inFlight + 1
    /\ UNCHANGED <<apiKey, view, step, formData, edits>>
    /\ Render(FALSE)
    /\ UNCHANGED engineVars

\* the provider answers: generateAiInsight resumes after its await
RequestSucceeds ==
    /\ inFlight > 0
    /\ \E content \in Contents :
          aiInsight' = TextInsight(insightText(content))
    /\ isAiLoading' = FALSE
    /\ inFlight' = inFlight - 1
    /\ UNCHANGED <<apiKey, view, step, formData, edits>>
    /\ Render(FALSE)
    /\ UNCHANGED engineVars

\* the request is rejected: the catch block, then the finally block
RequestFails ==
    /\ inFlight > 0
    /\ aiInsight' = TextInsight(ErrorText)
    /\ isAiLoading' = FALSE
    /\ inFlight' = inFlight - 1
    /\ UNCHANGED <<apiKey, view, step, formData, edits>>
    /\ Render(FALSE)
    /\ UNCHANGED engineVars

RequestSettles == RequestSucceeds \/ RequestFails

\* handleInputChange, followed for MaxAiEdits edits
EditRecord == EditForm(MaxAiEdits)

AiInit ==
    /\ AppConstructed
    /\ apiKey \in ApiKeys
    /\ data = DefaultFormData
    /\ op = "idle"
    /\ ret = NoValue
    /\ optimalData = NoValue

AiNext ==
    \/ EditRecord
    \/ ClickHome
    \/ ClickNovoExame
    \/ ClickIniciar
    \/ ClickVoltar
    \/ ClickProximo
    \/ ClickGerarAnalises
    \/ ClickEditarDados
    \/ SaveApiKey
    \/ ChangeProvider
    \/ ClickGerarParecer
    \/ RequestSucceeds
    \/ RequestFails

\* a request sent is answered or rejected in the end: the client gives up
\* on a request after its timeout
AiSpec == AiInit /\ [][AiNext]_vars /\ WF_vars(RequestSettles)

-----------------------------------------------------------------------------
(* Properties                                                              *)

Pct(p) == p * PctScale
Floor == PctScale \div 10
Levels == {"low", "moderate", "high", "very_high"}

\* the positivity preconditions of the logarithms
ValidCV(d) ==
    d.totalCholesterol > 0 /\ d.hdlCholesterol > 0 /\ d.systolicBP > 0

\* C1: the level getCombinedResults returns is decided by c = the ten-year
\* cardiovascular risk and r = the five-year renal risk of the record alone:
\* very_high iff c > 20 or r > 15; high iff not very_high and (c > 10 or
\* r > 10); moderate iff neither and (c > 5 or r > 5); low otherwise.  The
\* comparisons are strict and every pair gets exactly one of the four levels.
C1_CombinedLevelRule ==
    op = "getCombinedResults" =>
        LET c == ret.cvTimeline.tenYear
            r == ret.renalTimeline.fiveYear
            veryHigh == c > Pct(20) \/ r > Pct(15)
            high == ~veryHigh /\ (c > Pct(10) \/ r > Pct(10))
            moderate == ~veryHigh /\ ~high /\ (c > Pct(5) \/ r > Pct(5))
        IN  /\ c = calculateCVRisk(data).tenYear
            /\ r = calculateRenalRisk(data).fiveYear
            /\ ret.combinedLevel \in Levels
            /\ (ret.combinedLevel = "very_high") <=> veryHigh
            /\ (ret.combinedLevel = "high") <=> high
            /\ (ret.combinedLevel = "moderate") <=> moderate
            /\ (ret.combinedLevel = "low") <=> (~veryHigh /\ ~high /\ ~moderate)

\* a ten-year risk of exactly 20 with a renal risk of at most 15 is "high"
C1_Witness ==
    /\ op = "getCombinedResults"
    /\ ret.cvTimeline.tenYear = Pct(20)
    /\ ret.renalTimeline.fiveYear <= Pct(15)
    /\ ret.combinedLevel = "high"

\* C2: for a record with positive total cholesterol, HDL and systolic BP,
\* each horizon calculateCVRisk returns lies in [0.1, 100], whatever the sex
\* and the smoker, diabetes, medication and statin flags.
C2_CVRange ==
    (op = "calculateCVRisk" /\ ValidCV(data)) =>
        \A v \in {ret.fiveYear, ret.tenYear, ret.fifteenYear} :
            Floor <= v /\ v <= Pct(100)

\* a record whose five-year risk is raised to the floor while its
\* fifteen-year risk lies above it
C2_Witness ==
    /\ op = "calculateCVRisk"
    /\ ValidCV(data)
    /\ ret.fiveYear = Floor
    /\ ret.fifteenYear > Floor

\* the percentage calculateRiskAtTime(t) computes for record d before its clamp
unclampedPct(d, t) ==
    riskPct(t, baselineS10(d.gender), riskFactor(d), d.onStatins)

withoutStatins(d) == [d EXCEPT !.onStatins = FALSE]

\* C4 as claimed: for a record on statins whose risk without statins stays
\* below 100/0.75 before the clamp, every horizon calculateCVRisk returns is
\* exactly 0.75 times the horizon of the same record without statins.
C4_StatinFactorEveryHorizon ==
    (op = "calculateCVRisk" /\ data.onStatins) =>
        LET off == withoutStatins(data)
            offRes == calculateCVRisk(off)
        IN  (\A t \in {5, 10, 15} : 3 * unclampedPct(off, t) < 4 * Pct(100)) =>
                /\ 4 * ret.fiveYear = 3 * offRes.fiveYear
                /\ 4 * ret.tenYear = 3 * offRes.tenYear
                /\ 4 * ret.fifteenYear = 3 * offRes.fifteenYear

\* C4: for a record on statins, every horizon at which the risk without
\* statins is at least 0.1/0.75 per cent is exactly 0.75 times the horizon of
\* the same record without statins; at a horizon where it is lower, the value
\* with statins is held at the floor 0.1, which is more than 0.75 times it.
C4_StatinFactorAboveFloor ==
    (op = "calculateCVRisk" /\ data.onStatins) =>
        LET offRes == calculateCVRisk(withoutStatins(data))
            Scaled(on, off) ==
                IF 3 * off >= 4 * Floor THEN 4 * on = 3 * off
                ELSE on = Floor /\ 4 * on > 3 * off
        IN  /\ Scaled(ret.fiveYear, offRes.fiveYear)
            /\ Scaled(ret.tenYear, offRes.tenYear)
            /\ Scaled(ret.fifteenYear, offRes.fifteenYear)

\* a record on statins whose three horizons are all 0.75 times, and below,
\* those of the record without statins
C4_Witness ==
    /\ op = "calculateCVRisk"
    /\ data.onStatins
    /\ LET offRes == calculateCVRisk(withoutStatins(data))
       IN  /\ 3 * offRes.fiveYear >= 4 * Floor
           /\ 4 * ret.fiveYear = 3 * offRes.fiveYear
           /\ 4 * ret.fifteenYear = 3 * offRes.fifteenYear
           /\ ret.tenYear < offRes.tenYear

\* the modifiable fields are no better than the targets of the optimal record
NoBetterThanOptimal(d) ==
    /\ d.systolicBP >= 115
    /\ d.totalCholesterol >= 160
    /\ d.hdlCholesterol <= 55

ForcedFields ==
    {"systolicBP", "diastolicBP", "totalCholesterol", "hdlCholesterol",
     "isSmoker", "onHypertensionMeds", "onStatins"}

\* C6: the record calculateOptimalRisk passes to calculateCVRisk has systolic
\* BP 115, diastolic BP 75, total cholesterol 160, HDL 55, and the smoker,
\* medication and statin flags false; every other field, hasDiabetes, age,
\* gender, eGFR and acr among them, is the input's.
C6_OptimalRecordFrame ==
    op = "calculateOptimalRisk" =>
        /\ optimalData.systolicBP = 115
        /\ optimalData.diastolicBP = 75
        /\ optimalData.totalCholesterol = 160
        /\ optimalData.hdlCholesterol = 55
        /\ optimalData.isSmoker = FALSE
        /\ optimalData.onHypertensionMeds = FALSE
        /\ optimalData.onStatins = FALSE
        /\ DOMAIN optimalData = DOMAIN data
        /\ \A f \in (DOMAIN data) \ ForcedFields : optimalData[f] = data[f]
        /\ ret = calculateCVRisk(optimalData)

\* a diabetic record that differs from its optimal record in all seven fields
C6_Witness ==
    /\ op = "calculateOptimalRisk"
    /\ data.hasDiabetes
    /\ optimalData.hasDiabetes
    /\ \A f \in ForcedFields : optimalData[f] # data[f]

C8_RenalRange ==
    (op = "calculateRenalRisk" /\ data.acr > 0) =>
        \A v \in {ret.twoYear, ret.fiveYear, ret.tenYear} :
            0 <= v /\ v <= Pct(100)

\* a record whose ten-year renal risk is within one point of 100
C8_Witness ==
    /\ op = "calculateRenalRisk"
    /\ data.acr > 0
    /\ ret.tenYear > Pct(99)
    /\ ret.twoYear > 0

\* C9: calculateCVRisk returns for a record of age a what it returns for the
\* same record with age min(max(a, 30), 79).
C9_AgeClamp ==
    op = "calculateCVRisk" =>
        LET a == data.age
            clamped == IF a < 30 THEN 30 ELSE IF a > 79 THEN 79 ELSE a
        IN  ret = calculateCVRisk([data EXCEPT !.age = clamped])

\* a record of an age above 79, evaluated as at 79 and not as at 78
C9_Witness ==
    /\ op = "calculateCVRisk"
    /\ data.age > 79
    /\ ret = calculateCVRisk([data EXCEPT !.age = 79])
    /\ ret # calculateCVRisk([data EXCEPT !.age = 78])

\* C10: in the result of getCombinedResults, cv30y.total is
\* min(cvTimeline.tenYear * 2.5, 100): at most 100 and at least the ten-year
\* risk.
C10_LongHorizon ==
    op = "getCombinedResults" =>
        LET ten == ret.cvTimeline.tenYear
            total == ret.cv30y.total
        IN  /\ 2 * total = (IF 5 * ten < 2 * Pct(100) THEN 5 * ten ELSE 2 * Pct(100))
            /\ total <= Pct(100)
            /\ total >= ten

\* a record whose ten-year risk is over 40, so that the cap at 100 binds
C10_Witness ==
    /\ op = "getCombinedResults"
    /\ 5 * ret.cvTimeline.tenYear > 2 * Pct(100)
    /\ ret.cv30y.total = Pct(100)


-----------------------------------------------------------------------------
(* Properties of the engine on records that break its preconditions, and   *)
(* of the App                                                              *)

\* a field value that breaks the precondition "numeric and positive"
NotPositive(x) == x = NaN \/ x <= 0

\* the record breaks a precondition of calculateCVRisk, of calculateRenalRisk
BreaksCV(d) ==
    \/ NotPositive(d.totalCholesterol)
    \/ NotPositive(d.hdlCholesterol)
    \/ NotPositive(d.systolicBP)

BreaksRenal(d) == NotPositive(d.acr)

\* a number that reads as a percentage
LooksValid(p) == ~Special(p) /\ p >= 0 /\ p <= Pct(100)

\* C11: when the form record breaks a precondition (total cholesterol, HDL,
\* systolic pressure or ACR not numeric or not positive), no field of the
\* results the App holds takes a valid-looking default: the cardiovascular
\* numbers do not read as percentages when a cardiovascular input is broken,
\* the renal numbers do not when ACR is broken, and combinedLevel is not left
\* at its starting value "low".
C11_NoSilentDefault ==
    /\ BreaksCV(formData) =>
          /\ ~LooksValid(results.cvTimeline.fiveYear)
          /\ ~LooksValid(results.cvTimeline.tenYear)
          /\ ~LooksValid(results.cvTimeline.fifteenYear)
          /\ ~LooksValid(results.cv30y.total)
    /\ BreaksRenal(formData) =>
          /\ ~LooksValid(results.renalTimeline.twoYear)
          /\ ~LooksValid(results.renalTimeline.fiveYear)
          /\ ~LooksValid(results.renalTimeline.tenYear)
    /\ (BreaksCV(formData) \/ BreaksRenal(formData)) =>
          results.combinedLevel # "low"

\* the three ways the violation is hidden, each reached by one edit of the
\* default record: an emptied cholesterol field leaves the level at "low"
\* beside NaN numbers, a systolic pressure of 0 gives the floor 0.1 at every
\* horizon, an ACR of 0 gives a renal risk of 0
C11_LevelLowOnNaN ==
    /\ formData.totalCholesterol = NaN
    /\ results.cvTimeline.tenYear = NaN
    /\ ~XGt(results.renalTimeline.fiveYear, Pct(5))
    /\ results.combinedLevel = "low"

C11_FloorOnZeroPressure ==
    /\ formData.systolicBP = 0
    /\ results.cvTimeline.fiveYear = Floor
    /\ results.cvTimeline.tenYear = Floor
    /\ results.cvTimeline.fifteenYear = Floor

C11_ZeroOnZeroACR ==
    /\ formData.acr = 0
    /\ results.renalTimeline.twoYear = 0
    /\ results.renalTimeline.fiveYear = 0
    /\ results.renalTimeline.tenYear = 0

\* C12: in every state of the App, whatever form edits and view changes led
\* to it, the results and the optimal timeline the App holds are the values
\* of getCombinedResults and calculateOptimalRisk for the current formData.
C12_MemoFollowsFormData ==
    /\ results = getCombinedResults(formData)
    /\ optimal = calculateOptimalRisk(formData)

\* the results view is open on an edited record whose results and optimal
\* timeline both differ from those of the default record
C12_Witness ==
    /\ view = "results"
    /\ edits > 0
    /\ results # getCombinedResults(DefaultFormData)
    /\ optimal # calculateOptimalRisk(DefaultFormData)
    /\ results = getCombinedResults(formData)

\* C13: no engine operation modifies the record it is given: across a call
\* of calculateCVRisk, calculateRenalRisk, getCombinedResults or
\* calculateOptimalRisk every field of the caller's record keeps its value,
\* age included (it is not replaced by the clamped age) and the seven fields
\* the optimal record overrides included.
C13_InputUnchanged ==
    [][(op = "idle" /\ op' # "idle") => data' = data]_vars

\* calculateOptimalRisk has been called on a record whose age is outside
\* [30, 79] and whose seven overridden fields all differ from the optimal
\* record's
C13_Witness ==
    /\ op = "calculateOptimalRisk"
    /\ evalAge(data.age) # data.age
    /\ \A f \in ForcedFields : data[f] # optimalData[f]

\* the record with its age brought into [30, 79]
atClampedAge(d) == [d EXCEPT !.age = evalAge(d.age)]

\* a renal percentage at an end of its range, where a change of the hazard
\* no longer shows
Saturated(p) == p = 0 \/ p = Pct(100)

\* C14: the age clamp is not applied in the renal sub-model.  For a record
\* whose age is outside [30, 79], calculateRenalRisk uses the age as given:
\* its linear predictor differs from the one at the clamped age, and each
\* horizon of its result differs from the result at the clamped age (higher
\* below 30, lower above 79) unless that horizon sits at 0 or at 100 in both;
\* the result of calculateCVRisk is the one at the clamped age.
C14_ClampOnlyInCV ==
    evalAge(data.age) # data.age =>
        /\ op = "calculateRenalRisk" =>
              LET clamped == calculateRenalRisk(atClampedAge(data))
                  Moved(h) ==
                      \/ data.age < MinEvalAge /\ ret[h] > clamped[h]
                      \/ data.age > MaxEvalAge /\ ret[h] < clamped[h]
                      \/ ret[h] = clamped[h] /\ Saturated(ret[h])
              IN  /\ renalLp(data) # renalLp(atClampedAge(data))
                  /\ Moved("twoYear") /\ Moved("fiveYear") /\ Moved("tenYear")
        /\ op = "calculateCVRisk" => ret = calculateCVRisk(atClampedAge(data))

\* calculateRenalRisk has returned, for a record aged under 30, a result
\* that differs at every horizon from the result at age 30
C14_Witness ==
    /\ op = "calculateRenalRisk"
    /\ data.age < MinEvalAge
    /\ LET clamped == calculateRenalRisk(atClampedAge(data))
       IN  /\ ret.twoYear > clamped.twoYear
           /\ ret.fiveYear > clamped.fiveYear
           /\ ret.tenYear > clamped.tenYear

\* C15: in calculateCVRisk the coefficient of ln(systolic BP), and nothing
\* else, is chosen by onHypertensionMeds: it is 1.797 treated and 1.764
\* untreated for men, 2.019 and 1.957 for women; setting the flag changes
\* indivSum by the difference of the two systolic terms only, and the mean
\* constant (61.1816 men, -29.182 women) and the baseline survival (0.9144
\* men, 0.9665 women) the result is built from depend on sex alone.
C15_TreatmentSelectsSBPCoefficient ==
    op = "calculateCVRisk" =>
        LET male == data.gender = "MALE"
            treatedCoef == IF male THEN 1797 ELSE 2019
            untreatedCoef == IF male THEN 1764 ELSE 1957
            mean == IF male THEN 61181600 ELSE -29182000
            s10 == IF male THEN 914400 ELSE 966500
            treated == [data EXCEPT !.onHypertensionMeds = TRUE]
            untreated == [data EXCEPT !.onHypertensionMeds = FALSE]
            lnSBP == XLn(data.systolicBP)
            rf == XExp(XSub(indivSum(data), mean))
        IN  /\ sbpCoef(data.gender, TRUE) = treatedCoef * Radix
            /\ sbpCoef(data.gender, FALSE) = untreatedCoef * Radix
            /\ indivSum(treated) - indivSum(untreated)
                 = Mul(treatedCoef * Radix, lnSBP) - Mul(untreatedCoef * Radix, lnSBP)
            /\ meanSum(data.gender) = mean
            /\ baselineS10(data.gender) = s10
            /\ ret.fiveYear = calculateRiskAtTime(5, s10, rf, data.onStatins)
            /\ ret.tenYear = calculateRiskAtTime(10, s10, rf, data.onStatins)
            /\ ret.fifteenYear = calculateRiskAtTime(15, s10, rf, data.onStatins)

\* calculateCVRisk has returned for a treated man a ten-year risk above the
\* one of the same record untreated
C15_Witness ==
    /\ op = "calculateCVRisk"
    /\ data.gender = "MALE"
    /\ data.onHypertensionMeds
    /\ ret.tenYear > calculateCVRisk([data EXCEPT !.onHypertensionMeds = FALSE]).tenYear

\* C16: calculateRenalRisk uses one hazard multiplier exp(lp) for its three
\* horizons and a fixed baseline survival for each (0.9832 at 2 years, 0.9365
\* at 5, 0.8200 at 10): each result is (1 - S^exp(lp)) * 100, and the two-
\* and five-year results are not the ones time-scaling of the ten-year
\* baseline would give, except at a horizon whose result sits at 0 or at
\* 100.
C16_FixedBaselinePerHorizon ==
    op = "calculateRenalRisk" =>
        LET hazard == XExp(renalLp(data))
            At(s) == XTimes(XSub(Scale, XPow(s, hazard)), PctScale \div 10000)
            Scaled(t) == At(Pow(820000, (t * Scale) \div 10))
            Apart(p, q) == p # q \/ Saturated(p)
        IN  /\ ret.twoYear = At(983200)
            /\ ret.fiveYear = At(936500)
            /\ ret.tenYear = At(820000)
            /\ Apart(ret.twoYear, Scaled(2))
            /\ Apart(ret.fiveYear, Scaled(5))

\* calculateRenalRisk has returned three results strictly between 0 and 100
\* that differ from the time-scaled ones
C16_Witness ==
    /\ op = "calculateRenalRisk"
    /\ ret.twoYear > Pct(1) /\ ret.tenYear < Pct(99)
    /\ LET hazard == XExp(renalLp(data))
           At(s) == XTimes(XSub(Scale, XPow(s, hazard)), PctScale \div 10000)
       IN  /\ ret.twoYear < At(Pow(820000, (2 * Scale) \div 10))
           /\ ret.fiveYear < At(Pow(820000, (5 * Scale) \div 10))

\* C17: for a record with positive ACR the renal risk does not decrease with
\* the horizon: twoYear <= fiveYear <= tenYear.
C17_RenalMonotone ==
    (op = "calculateRenalRisk" /\ ~NotPositive(data.acr)) =>
        /\ ret.twoYear <= ret.fiveYear
        /\ ret.fiveYear <= ret.tenYear

\* calculateRenalRisk has returned three strictly increasing results
C17_Witness ==
    /\ op = "calculateRenalRisk"
    /\ data.acr > 0
    /\ 0 < ret.twoYear
    /\ ret.twoYear < ret.fiveYear
    /\ ret.fiveYear < ret.tenYear

\* C18: for a record on statins every cardiovascular horizon calculateCVRisk
\* returns is at most 75 per cent, and the value before the clamp is under
\* 100, so that the upper clamp does not act.
C18_StatinCeiling ==
    (op = "calculateCVRisk" /\ data.onStatins) =>
        /\ ret.fiveYear <= Pct(75)
        /\ ret.tenYear <= Pct(75)
        /\ ret.fifteenYear <= Pct(75)
        /\ ret.total <= Pct(75)
        /\ \A t \in {5, 10, 15} : unclampedPct(data, t) < Pct(100)

\* calculateCVRisk has returned, for a record on statins, a fifteen-year risk
\* above 70 where the same record without statins is above 93
C18_Witness ==
    /\ op = "calculateCVRisk"
    /\ data.onStatins
    /\ ret.fifteenYear > Pct(70)
    /\ calculateCVRisk(withoutStatins(data)).fifteenYear > Pct(93)

\* the record r with the age, sex and diabetes flag of d
withIdentityOf(r, d) ==
    [r EXCEPT !.age = d.age, !.gender = d.gender, !.hasDiabetes = d.hasDiabetes]

\* C19: the result of calculateOptimalRisk depends on age, gender and
\* hasDiabetes alone: every record that agrees with the input on these three
\* (here the form's default record and the record with every factor bad and
\* statins, given the input's three values) has the same optimal timeline.
C19_OptimalDependsOnThree ==
    op = "calculateOptimalRisk" =>
        \A other \in {DefaultFormData} \cup {r \in ExtremeRecords : r.onStatins} :
            calculateOptimalRisk(withIdentityOf(other, data)) = ret

\* calculateOptimalRisk has returned for a record that differs from the
\* default record in every field the engine reads other than the three, and
\* whose own risk differs from the default record's with the three set alike
C19_Witness ==
    /\ op = "calculateOptimalRisk"
    /\ data.systolicBP # DefaultSBP
    /\ data.totalCholesterol # DefaultTC
    /\ data.hdlCholesterol # DefaultHDL
    /\ data.isSmoker /\ ~data.onHypertensionMeds /\ data.onStatins
    /\ data.eGFR # DefaultEGFR /\ data.acr # DefaultACR
    /\ calculateCVRisk(data) # calculateCVRisk(withIdentityOf(DefaultFormData, data))
    /\ ret = calculateOptimalRisk(withIdentityOf(DefaultFormData, data))

\* C20: whatever sequence of 'Proximo', 'Voltar', 'Novo Exame', 'Editar
\* Dados', logo and 'Iniciar' clicks is made, step stays in {1, 2, 3}, and
\* the results view is entered only from the calc view while step = 3.
C20_WizardStep ==
    /\ [](step \in {1, 2, 3})
    /\ [][(view # "results" /\ view' = "results") => (view = "calc" /\ step = 3)]_vars

\* the results view is open, reached through the three pages of the wizard
\* with an edit on the way
C20_Witness ==
    /\ view = "results"
    /\ step = 3
    /\ edits > 0


-----------------------------------------------------------------------------
(* Properties of the narrative request                                      *)

\* C21: at most one narrative request is in flight at any time, a request
\* being in flight exactly while isAiLoading is true; isAiLoading, once
\* true, becomes false again, whether the request is answered or rejected;
\* and while no key is configured no step sends a request or sets
\* isAiLoading, a call made then returning with isAiLoading false.
C21_OneRequestAtATime ==
    /\ [](inFlight <= 1)
    /\ [](isAiLoading <=> inFlight = 1)
    /\ isAiLoading ~> ~isAiLoading
    /\ [][keyMissing(currentKey(apiKey))
             => (inFlight' <= inFlight /\ (isAiLoading' => isAiLoading))]_vars

\* a request is in flight, and while it is the button is there and disabled
C21_Witness ==
    /\ isAiLoading
    /\ inFlight = 1
    /\ view = "results"
    /\ aiButtonShown(aiInsight)
    /\ aiButtonDisabled(isAiLoading)

\* C22 as claimed: the button that asks for a narrative is shown only while
\* aiInsight is null, and once aiInsight is a text, whatever text, it never
\* changes again and no further request is sent.
C22_NeverAskedAgain ==
    /\ [](aiButtonShown(aiInsight) => aiInsight.isNull)
    /\ [][~aiInsight.isNull
             => (aiInsight' = aiInsight /\ inFlight' = inFlight)]_vars

\* C22: once aiInsight is a text that is not empty, no request is in flight
\* and no step changes aiInsight or sends a request, so the text stays as it
\* is across later edits of the patient record; a step takes aiInsight from
\* a text back to null only where the text is empty and the button of the
\* results page, shown for the empty text as for null, starts a new call;
\* and no edit of the record changes aiInsight.
C22_TextKeptWhileNotEmpty ==
    /\ [](truthy(aiInsight) => (inFlight = 0 /\ ~isAiLoading))
    /\ [][truthy(aiInsight)
             => (aiInsight' = aiInsight /\ inFlight' = inFlight)]_vars
    /\ [][(~aiInsight.isNull /\ aiInsight'.isNull)
             => (aiInsight.text = <<>> /\ view = "results" /\ ~isAiLoading)]_vars
    /\ [][formData' # formData => aiInsight' = aiInsight]_vars

\* a narrative that is not empty is held while the wizard is open again on
\* an edited record
C22_Witness ==
    /\ truthy(aiInsight)
    /\ aiInsight.text # ErrorText
    /\ view = "calc"
    /\ edits > 0
    /\ formData # DefaultFormData
=============================================================================
